---------------------------- MODULE Spec2Model ----------------------------
(***************************************************************************)
(* Model of the generated Rust client's request builder and executor,     *)
(* modules/openapi-generator/src/main/resources/rust/request.rs.          *)
(*                                                                         *)
(* A Rust String is a Text: a sequence of tokens, each token a chunk of    *)
(* characters written as a TLA+ string ("{", "a", " ", "Bearer").          *)
(* Concatenation, search and replacement work on the sequence; per         *)
(* character conversions (URL encoding, header-name case folding) are      *)
(* tables over the tokens.                                                 *)
(***************************************************************************)
EXTENDS Integers, Sequences, FiniteSets, TLC

VARIABLES
    method,            \* Request.method
    path,              \* Request.path (the template)
    auth,              \* Request.auth
    query_params,      \* Request.query_params  : HashMap<String, String>
    no_return_type,    \* Request.no_return_type
    path_params,       \* Request.path_params   : HashMap<String, String>
    form_params,       \* Request.form_params   : HashMap<String, String>
    header_params,     \* Request.header_params : HashMap<String, String>
    serialized_body,   \* Request.serialized_body : Option<String>
    conf,              \* the configuration::Configuration handed to execute
    U,                 \* the target type execute is instantiated with
    pc,                \* where the call chain / the returned future stands
    panicked,          \* the unwrap() that panicked, or "none"
    resolved,          \* execute's local `path` after the substitution loop
    raw_headers,       \* execute's local raw_headers
    headers,           \* execute's local typed header map
    query_pairs,       \* the pairs appended to query_string, in order
    uri_str,           \* execute's local uri_str
    req,               \* the hyper::Request handed to the client, or NoReq
    sends,             \* number of conf.client.request(req) calls
    resp,              \* what the transport has yielded so far
    outcome            \* the future's result: NoOutcome, Ok value or Err

vars == <<method, path, auth, query_params, no_return_type, path_params,
          form_params, header_params, serialized_body, conf, U, pc, panicked,
          resolved, raw_headers, headers, query_pairs, uri_str, req, sends,
          resp, outcome>>

descriptor == <<method, path, auth, query_params, no_return_type, path_params,
                form_params, header_params, serialized_body>>

locals == <<resolved, raw_headers, headers, query_pairs, uri_str, req, sends>>

(***************************************************************************)
(* Bounds of the model.                                                    *)
(***************************************************************************)
\* Longest path template, counted in template atoms.
MaxPathAtoms == 3
\* Most settings (configured credentials and fields, builder entries) of one
\* scenario.
MaxSettings == 3

(***************************************************************************)
(* Text helpers.                                                           *)
(***************************************************************************)
RECURSIVE Flatten(_)
Flatten(ss) ==
    IF ss = <<>> THEN <<>> ELSE Head(ss) \o Flatten(Tail(ss))

SeqsUpTo(S, n) == UNION {[1..m -> S] : m \in 0..n}

Range(f) == {f[x] : x \in DOMAIN f}

\* Every ordering of a finite set, as the sequences a HashMap iteration can
\* yield its keys in.
Orders(S) ==
    {o \in [1..Cardinality(S) -> S] : \A i, j \in DOMAIN o : i # j => o[i] # o[j]}

EmptyMap == <<>>

\* HashMap::insert
Insert(m, k, v) ==
    [x \in (DOMAIN m) \cup {k} |-> IF x = k THEN v ELSE m[x]]

StartsWith(s, p) ==
    Len(p) <= Len(s) /\ SubSeq(s, 1, Len(p)) = p

\* s contains sub
Occurs(sub, s) ==
    \E i \in 1..(Len(s) - Len(sub) + 1) : SubSeq(s, i, i + Len(sub) - 1) = sub

\* str::replace with only the first match replaced (str::replacen(.., 1)).
ReplaceFirst(s, from, to) ==
    IF Occurs(from, s)
    THEN LET i == CHOOSE i \in 1..(Len(s) - Len(from) + 1) :
                      /\ SubSeq(s, i, i + Len(from) - 1) = from
                      /\ \A j \in 1..(i - 1) : SubSeq(s, j, j + Len(from) - 1) # from
         IN SubSeq(s, 1, i - 1) \o to \o SubSeq(s, i + Len(from), Len(s))
    ELSE s

\* str::replace: every non-overlapping match of `from`, left to right.
RECURSIVE ReplaceAll(_, _, _)
ReplaceAll(s, from, to) ==
    IF Len(s) < Len(from) \/ from = <<>> THEN s
    ELSE IF StartsWith(s, from)
         THEN to \o ReplaceAll(SubSeq(s, Len(from) + 1, Len(s)), from, to)
         ELSE <<Head(s)>> \o ReplaceAll(Tail(s), from, to)

Replace(s, from, to) == ReplaceAll(s, from, to)

\* format!("{{{}}}", k)
Placeholder(k) == <<"{">> \o k \o <<"}">>

\* The substitution loop of execute, the map iterated in the order `ord`.
RECURSIVE ResolvePath(_, _, _)
ResolvePath(p, params, ord) ==
    IF ord = <<>> THEN p
    ELSE ResolvePath(Replace(p, Placeholder(Head(ord)), params[Head(ord)]),
                     params, Tail(ord))


(***************************************************************************)
(* Option and Result values.                                               *)
(***************************************************************************)
None == <<>>
Some(x) == <<x>>

Ok(v) == [ok |-> TRUE, val |-> v]
Err == [ok |-> FALSE, val |-> <<>>]

(***************************************************************************)
(* Constants of request.rs and of the hyper header module it imports.      *)
(***************************************************************************)
MIME_APPLICATION_WWW_FORM_URLENCODED == <<"application/x-www-form-urlencoded">>
MIME_APPLICATION_JSON == <<"application/json">>
USER_AGENT == <<"user-agent">>
AUTHORIZATION == <<"authorization">>
CONTENT_TYPE == <<"content-type">>
CONTENT_LENGTH == <<"content-length">>

(***************************************************************************)
(* The inputs the model draws from.                                        *)
(***************************************************************************)
Methods == {"GET"}

\* Path templates: up to MaxPathAtoms atoms, each a placeholder or literal text.
PathAtoms == {<<"/">>, <<"a">>, <<"{">>, <<"}">>,
              <<"{", "a", "}">>, <<"{", "b", "}">>}
Templates == {Flatten(s) : s \in SeqsUpTo(PathAtoms, MaxPathAtoms)}
PathKeys == {<<"a">>, <<"b">>}
PathValues == {<<>>, <<"x">>, <<"b">>, <<"{", "a", "}">>, <<"{", "b", "}">>}

\* The pipeline specification keeps one template and one path parameter.
PipelinePath == <<"/", "{", "a", "}">>
PipelinePathKeys == {<<"a">>}
PipelinePathValues == {<<"7">>}

QueryNames == {<<"q">>, <<"X-API-Key">>}
QueryValues == {<<"v">>}
FormNames == {<<"f">>, <<"g">>}
FormValues == {<<"a", "&", "b">>}
HeaderParamNames == {<<"Authorization">>, <<"User-Agent">>, <<"X-API-Key">>,
                     <<"Content-Type">>}
HeaderParamValues == {<<"application/json">>, <<"h", "\n", "v">>}
ApiKeyParamNames == {<<"X-API-Key">>}

\* Values handed to with_body_param: one serde_json can encode, and a map
\* with non-string keys, which serde_json::to_string rejects.
BodyValues == {"vec![1]", "map with tuple keys"}

NoAuth == [kind |-> "None", in_header |-> FALSE, in_query |-> FALSE,
           param_name |-> <<>>]
Auths ==
    {NoAuth,
     [NoAuth EXCEPT !.kind = "Basic"],
     [NoAuth EXCEPT !.kind = "Oauth"]}
    \cup {[kind |-> "ApiKey", in_header |-> h, in_query |-> q, param_name |-> n] :
            h \in BOOLEAN, q \in BOOLEAN, n \in ApiKeyParamNames}

DefaultBasePath == <<"http://host">>
BasePaths == {DefaultBasePath, <<"http://", " ", "host">>}
ApiKeyCredentials ==
    {[prefix |-> None, key |-> <<"k1">>],
     [prefix |-> Some(<<"Token">>), key |-> <<"k1">>]}
BasicCredentials ==
    {[username |-> <<"u">>, password |-> None],
     [username |-> <<"u">>, password |-> Some(<<"p">>)]}
OauthTokens == {<<"t1">>, <<"t", "\n", "1">>}
UserAgents == {<<"agent/1.0">>, <<"agent", "\n">>}

OptionOf(S) == {None} \cup {Some(x) : x \in S}

DefaultConf == [base_path |-> DefaultBasePath, api_key |-> None,
                basic_auth |-> None, oauth_access_token |-> None,
                user_agent |-> None]
Configurations ==
    [base_path : BasePaths, api_key : OptionOf(ApiKeyCredentials),
     basic_auth : OptionOf(BasicCredentials),
     oauth_access_token : OptionOf(OauthTokens),
     user_agent : OptionOf(UserAgents)]

\* (), and a model type (Vec<i32>).
TargetTypes == {"unit", "model"}

Statuses == {200, 300, 404}
ResponseBodies == {<<>>, <<"[1]">>, <<"oops">>}

(***************************************************************************)
(* The size of a scenario, which MaxSettings bounds.                       *)
(***************************************************************************)
B2N(b) == IF b THEN 1 ELSE 0

ConfSize(c) ==
    B2N(c.base_path # DefaultBasePath) + B2N(c.api_key # None)
    + B2N(c.basic_auth # None) + B2N(c.oauth_access_token # None)
    + B2N(c.user_agent # None)

Settings ==
    ConfSize(conf)
    + Cardinality(DOMAIN query_params) + Cardinality(DOMAIN path_params)
    + Cardinality(DOMAIN form_params) + Cardinality(DOMAIN header_params)
    + B2N(serialized_body # None) + B2N(no_return_type)
    + B2N(auth.kind # "None")

(***************************************************************************)
(* Request::new and the builder calls.                                     *)
(***************************************************************************)
NoReq == [uri |-> <<>>, method |-> "", headers |-> <<>>, body |-> <<>>]
NoResp == [status |-> 0, body |-> <<>>]
NoOutcome == [kind |-> "none", status |-> 0, body |-> <<>>, value |-> None]

\* Request::new(method, path), before execute has run.
New(m, p) ==
    /\ method = m
    /\ path = p
    /\ auth = NoAuth
    /\ query_params = EmptyMap
    /\ path_params = EmptyMap
    /\ form_params = EmptyMap
    /\ header_params = EmptyMap
    /\ serialized_body = None
    /\ no_return_type = FALSE
    /\ pc = "build"
    /\ panicked = "none"
    /\ U = "unit"
    /\ resolved = <<>>
    /\ raw_headers = EmptyMap
    /\ headers = EmptyMap
    /\ query_pairs = <<>>
    /\ uri_str = <<>>
    /\ req = NoReq
    /\ sends = 0
    /\ resp = NoResp
    /\ outcome = NoOutcome

\* serde_json::to_string(&param)
ToJson(param) ==
    IF param = "vec![1]" THEN Ok(<<"[1]">>) ELSE Err

with_body_param(param) ==
    /\ pc = "build"
    /\ IF ToJson(param).ok
       THEN /\ serialized_body' = Some(ToJson(param).val)
            /\ UNCHANGED <<pc, panicked>>
       ELSE \* .unwrap() on the Err
            /\ pc' = "panicked"
            /\ panicked' = "with_body_param"
            /\ UNCHANGED serialized_body
    /\ UNCHANGED <<method, path, auth, query_params, no_return_type,
                   path_params, form_params, header_params, conf, U, locals,
                   resp, outcome>>
    /\ Settings' <= MaxSettings

with_header_param(basename, param) ==
    /\ pc = "build"
    /\ header_params' = Insert(header_params, basename, param)
    /\ UNCHANGED <<method, path, auth, query_params, no_return_type,
                   path_params, form_params, serialized_body, conf, U, pc,
                   panicked, locals, resp, outcome>>
    /\ Settings' <= MaxSettings

with_query_param(basename, param) ==
    /\ pc = "build"
    /\ query_params' = Insert(query_params, basename, param)
    /\ UNCHANGED <<method, path, auth, no_return_type, path_params,
                   form_params, header_params, serialized_body, conf, U, pc,
                   panicked, locals, resp, outcome>>
    /\ Settings' <= MaxSettings

with_path_param(basename, param) ==
    /\ pc = "build"
    /\ path_params' = Insert(path_params, basename, param)
    /\ UNCHANGED <<method, path, auth, query_params, no_return_type,
                   form_params, header_params, serialized_body, conf, U, pc,
                   panicked, locals, resp, outcome>>
    /\ Settings' <= MaxSettings

with_form_param(basename, param) ==
    /\ pc = "build"
    /\ form_params' = Insert(form_params, basename, param)
    /\ UNCHANGED <<method, path, auth, query_params, no_return_type,
                   path_params, header_params, serialized_body, conf, U, pc,
                   panicked, locals, resp, outcome>>
    /\ Settings' <= MaxSettings

returns_nothing ==
    /\ pc = "build"
    /\ no_return_type' = TRUE
    /\ UNCHANGED <<method, path, auth, query_params, path_params, form_params,
                   header_params, serialized_body, conf, U, pc, panicked,
                   locals, resp, outcome>>
    /\ Settings' <= MaxSettings

with_auth(a) ==
    /\ pc = "build"
    /\ auth' = a
    /\ UNCHANGED <<method, path, query_params, no_return_type, path_params,
                   form_params, header_params, serialized_body, conf, U, pc,
                   panicked, locals, resp, outcome>>
    /\ Settings' <= MaxSettings

(***************************************************************************)
(* Library conversions execute relies on.                                  *)
(***************************************************************************)
\* url::form_urlencoded byte_serialize, token by token: a space becomes "+",
\* every byte outside [A-Za-z0-9*-._] its %XX escape.
UrlEncodeToken(t) ==
    CASE t = " " -> "+"
      [] t = "&" -> "%26"
      [] t = "=" -> "%3D"
      [] t = "\n" -> "%0A"
      [] t = "{" -> "%7B"
      [] t = "}" -> "%7D"
      [] t = "/" -> "%2F"
      [] t = "?" -> "%3F"
      [] t = "application/json" -> "application%2Fjson"
      [] t = "agent/1.0" -> "agent%2F1.0"
      [] t = "http://" -> "http%3A%2F%2F"
      [] t = "http://host" -> "http%3A%2F%2Fhost"
      [] OTHER -> t

UrlEncode(text) == [i \in DOMAIN text |-> UrlEncodeToken(text[i])]

\* form_urlencoded::Serializer: append_pair for each pair, then finish().
RECURSIVE FormUrlEncode(_)
FormUrlEncode(pairs) ==
    IF pairs = <<>> THEN <<>>
    ELSE LET p == pairs[Len(pairs)]
             before == FormUrlEncode(SubSeq(pairs, 1, Len(pairs) - 1))
         IN (IF before = <<>> THEN <<>> ELSE before \o <<"&">>)
            \o UrlEncode(p[1]) \o <<"=">> \o UrlEncode(p[2])

\* The pairs a HashMap yields when iterated in the order `ord`.
PairsOf(m, ord) == [i \in DOMAIN ord |-> <<ord[i], m[ord[i]]>>]

\* base64::encode, on the credentials the model draws.
Base64(text) ==
    CASE text = <<"u">> -> <<"dQ==">>
      [] text = <<"u", ":", "p">> -> <<"dTpw">>
      [] OTHER -> <<"base64(">> \o text \o <<")">>

\* HeaderName::from_bytes lower-cases the name.
LowerToken(t) ==
    CASE t = "Authorization" -> "authorization"
      [] t = "User-Agent" -> "user-agent"
      [] t = "X-API-Key" -> "x-api-key"
      [] t = "Content-Type" -> "content-type"
      [] OTHER -> t

HeaderNameOf(name) == [i \in DOMAIN name |-> LowerToken(name[i])]

\* Tokens made only of HTTP token characters.
NameTokens == {"Authorization", "authorization", "User-Agent", "user-agent",
               "X-API-Key", "x-api-key", "Content-Type", "content-type",
               "content-length", "q", "f", "g", "a", "b"}

\* HeaderName: TryFrom<&str> succeeds
HeaderNameLegal(name) ==
    name # <<>> /\ \A i \in DOMAIN name : name[i] \in NameTokens

\* HeaderValue::from_str succeeds: visible ASCII and tab only
HeaderValueLegal(value) ==
    \A i \in DOMAIN value : value[i] \notin {"\n", "\r"}

\* str::parse::<hyper::Uri> succeeds: not empty, no space or control byte
\* ("{" and "}" are accepted in a path).
UriLegal(text) ==
    text # <<>> /\ \A i \in DOMAIN text : text[i] \notin {" ", "\n", "\r"}

\* body.len() as u64, as a header value
ByteLen(body) == <<"len(">> \o body \o <<")">>

(***************************************************************************)
(* The request builder (hyper::Request::builder()).                        *)
(***************************************************************************)
NewBuilder == [hs |-> <<>>, err |-> FALSE]

HeaderEntry(name, value, stage) ==
    [name |-> HeaderNameOf(name), value |-> value, by |-> stage]

\* Builder::header: a no-op once the builder holds an error; an illegal name
\* or value is kept as the builder's error; otherwise the pair is appended to
\* the header map, next to any value the name already has.  `stage` records
\* which part of execute made the call.
BuilderHeader(b, name, value, stage) ==
    IF b.err THEN b
    ELSE IF ~HeaderNameLegal(name) \/ ~HeaderValueLegal(value)
         THEN [b EXCEPT !.err = TRUE]
         ELSE [b EXCEPT !.hs = Append(@, HeaderEntry(name, value, stage))]

(***************************************************************************)
(* execute: the assembly phase.                                            *)
(***************************************************************************)
\* ApiKey::key
ApiKeyKey(prefix, key) ==
    IF prefix = None THEN key ELSE prefix[1] \o <<" ">> \o key

HasApiKey == auth.kind = "ApiKey" /\ conf.api_key # None

ApiKeyValue == ApiKeyKey(conf.api_key[1].prefix, conf.api_key[1].key)

\* The Auth::ApiKey arm with the pair replacing a query pair of the same
\* name instead of being appended.
AuthQueryPairsReplacing(qp) ==
    IF HasApiKey /\ auth.in_query
    THEN Append(SelectSeq(qp, LAMBDA pr : pr[1] # auth.param_name),
                <<auth.param_name, ApiKeyValue>>)
    ELSE qp

\* The query pairs after the Auth::ApiKey arm.
AuthQueryPairs(qp) ==
    IF HasApiKey /\ auth.in_query
    THEN Append(qp, <<auth.param_name, ApiKeyValue>>)
    ELSE qp

\* raw_headers after the header_params loop and the Auth::ApiKey arm.
AuthRawHeaders ==
    IF HasApiKey /\ auth.in_header
    THEN Insert(header_params, auth.param_name, ApiKeyValue)
    ELSE header_params

\* format!("{}:{}", username, password) or the bare username
UserPassword(cred) ==
    IF cred.password # None
    THEN cred.username \o <<":">> \o cred.password[1]
    ELSE cred.username

\* The Authorization value the Basic / Oauth arm builds, if it builds one.
AuthorizationValue ==
    IF auth.kind = "Basic" /\ conf.basic_auth # None
    THEN Some(<<"Basic", " ">> \o Base64(UserPassword(conf.basic_auth[1])))
    ELSE IF auth.kind = "Oauth" /\ conf.oauth_access_token # None
         THEN Some(<<"Bearer", " ">> \o conf.oauth_access_token[1])
         ELSE None

\* The typed header map after the match on auth.
TypedHeaders ==
    IF AuthorizationValue = None THEN EmptyMap
    ELSE Insert(EmptyMap, AUTHORIZATION, AuthorizationValue[1])

\* uri_str
UriStr(p, qs) ==
    conf.base_path \o p \o (IF qs # <<>> THEN <<"?">> \o qs ELSE <<>>)

\* The user-agent write.
WithUserAgent(b) ==
    IF conf.user_agent # None
    THEN BuilderHeader(b, USER_AGENT, conf.user_agent[1], "user-agent")
    ELSE b

\* The loop over the typed headers (at most the Authorization entry).
WithTypedHeaders(b, typed) ==
    IF AUTHORIZATION \in DOMAIN typed
    THEN BuilderHeader(b, AUTHORIZATION, typed[AUTHORIZATION], "typed")
    ELSE b

\* The loop over raw_headers, iterated in the order `ord`.
RECURSIVE WithRawHeaders(_, _, _)
WithRawHeaders(b, raw, ord) ==
    IF ord = <<>> THEN b
    ELSE WithRawHeaders(BuilderHeader(b, Head(ord), raw[Head(ord)], "raw"),
                        raw, Tail(ord))

\* Body selection with the two tests swapped: the JSON body first.
SelectBodyJsonFirst(b, ford) ==
    IF serialized_body # None
    THEN [builder |-> BuilderHeader(
                        BuilderHeader(b, CONTENT_TYPE, MIME_APPLICATION_JSON, "body"),
                        CONTENT_LENGTH, ByteLen(serialized_body[1]), "body"),
          body |-> serialized_body[1]]
    ELSE IF Cardinality(DOMAIN form_params) > 0
         THEN [builder |-> BuilderHeader(b, CONTENT_TYPE,
                               MIME_APPLICATION_WWW_FORM_URLENCODED, "body"),
               body |-> FormUrlEncode(PairsOf(form_params, ford))]
         ELSE [builder |-> BuilderHeader(b, CONTENT_LENGTH, <<"0">>, "body"),
               body |-> <<>>]

\* Body selection: form params, else the serialized body, else empty.
SelectBody(b, ford) ==
    IF Cardinality(DOMAIN form_params) > 0
    THEN [builder |-> BuilderHeader(b, CONTENT_TYPE,
                          MIME_APPLICATION_WWW_FORM_URLENCODED, "body"),
          body |-> FormUrlEncode(PairsOf(form_params, ford))]
    ELSE IF serialized_body # None
         THEN [builder |-> BuilderHeader(
                             BuilderHeader(b, CONTENT_TYPE, MIME_APPLICATION_JSON, "body"),
                             CONTENT_LENGTH, ByteLen(serialized_body[1]), "body"),
               body |-> serialized_body[1]]
         ELSE [builder |-> BuilderHeader(b, CONTENT_LENGTH, <<"0">>, "body"),
               body |-> <<>>]

\* The synchronous part of execute, up to conf.client.request(req): the maps
\* are iterated in the orders pord, qord, hord and ford, and the call is
\* instantiated with target type T.
Execute(T, pord, qord, ford) ==
    /\ pc = "build"
    /\ U' = T
    /\ LET p == ResolvePath(path, path_params, pord)
           raw == AuthRawHeaders
           qp == AuthQueryPairs(PairsOf(query_params, qord))
           uri == UriStr(p, FormUrlEncode(qp))
       IN /\ resolved' = p
          /\ raw_headers' = raw
          /\ query_pairs' = qp
          /\ IF AuthorizationValue # None
                /\ ~HeaderValueLegal(AuthorizationValue[1])
             THEN \* HeaderValue::from_str(&raw_header_value).unwrap()
                  /\ pc' = "panicked"
                  /\ panicked' = "execute: HeaderValue::from_str"
                  /\ headers' = EmptyMap
                  /\ uri_str' = <<>>
                  /\ UNCHANGED <<req, sends, outcome>>
             ELSE /\ headers' = TypedHeaders
                  /\ uri_str' = uri
                  /\ IF ~UriLegal(uri)
                     THEN /\ pc' = "Failed"
                          /\ outcome' = [NoOutcome EXCEPT !.kind = "UriError"]
                          /\ UNCHANGED <<panicked, req, sends>>
                     ELSE \E hord \in Orders(DOMAIN raw) :
                          LET b == WithRawHeaders(
                                     WithTypedHeaders(WithUserAgent(NewBuilder),
                                                      TypedHeaders),
                                     raw, hord)
                              sel == SelectBody(b, ford)
                          IN IF sel.builder.err
                             THEN \* .body(..).unwrap() on the builder's error
                                  /\ pc' = "panicked"
                                  /\ panicked' = "execute: body"
                                  /\ UNCHANGED <<req, sends, outcome>>
                             ELSE /\ req' = [uri |-> uri, method |-> method,
                                             headers |-> sel.builder.hs,
                                             body |-> sel.body]
                                  /\ sends' = sends + 1
                                  /\ pc' = "Sent"
                                  /\ UNCHANGED <<panicked, outcome>>
    /\ UNCHANGED <<descriptor, conf, resp>>

(***************************************************************************)
(* execute: the returned future.                                           *)
(***************************************************************************)
\* StatusCode::is_success with the upper bound dropped.
IsSuccessNoUpperBound(status) == status >= 200

\* StatusCode::is_success
IsSuccess(status) == status >= 200 /\ status < 300

\* serde_json::from_slice::<U> / from_str::<U>: () decodes from null only,
\* the model type (Vec<i32>) from a JSON array.
FromJson(T, text) ==
    IF T = "unit" /\ text = <<"null">> THEN Ok(<<"()">>)
    ELSE IF T = "model" /\ text = <<"[1]">> THEN Ok(<<"vec![1]">>)
    ELSE Err

\* The decode step with the no_ret_type test dropped: the body is always parsed.
ParsedAlwaysFromBody(T, no_ret_type, body) == FromJson(T, body)

\* `parsed` of the last and_then.
Parsed(T, no_ret_type, body) ==
    IF no_ret_type THEN FromJson(T, <<"null">>) ELSE FromJson(T, body)

\* Error::from(hyper::Error)
ErrorFromHyper == [NoOutcome EXCEPT !.kind = "TransportError"]

\* Error::from(serde_json::Error)
ErrorFromSerde == [NoOutcome EXCEPT !.kind = "SerializationError"]

\* serde_json's parse of an error body into serde_json::Value
ParseValue(body) ==
    IF body \in {<<"[1]">>, <<"null">>} THEN Some(body) ELSE None

\* Error::from((status, &*body))
ErrorFromStatus(status, body) ==
    [kind |-> "ApiError", status |-> status, body |-> body,
     value |-> ParseValue(body)]

\* The client's future fails before a response head arrives.
TransportFails ==
    /\ pc = "Sent"
    /\ pc' = "Failed"
    /\ outcome' = ErrorFromHyper
    /\ UNCHANGED <<descriptor, conf, U, panicked, locals, resp>>

\* The client's future yields a response; resp.into_parts().
ResponseReceived(status) ==
    /\ pc = "Sent"
    /\ pc' = "HeadersReceived"
    /\ resp' = [status |-> status, body |-> <<>>]
    /\ UNCHANGED <<descriptor, conf, U, panicked, locals, outcome>>

\* body.concat2() fails.
BodyFails ==
    /\ pc = "HeadersReceived"
    /\ pc' = "Failed"
    /\ outcome' = ErrorFromHyper
    /\ UNCHANGED <<descriptor, conf, U, panicked, locals, resp>>

\* body.concat2() yields the whole body.
BodyReceived(body) ==
    /\ pc = "HeadersReceived"
    /\ pc' = "BodyReceived"
    /\ resp' = [resp EXCEPT !.body = body]
    /\ UNCHANGED <<descriptor, conf, U, panicked, locals, outcome>>

\* The and_then on (status, body).
CheckStatus ==
    /\ pc = "BodyReceived"
    /\ IF IsSuccess(resp.status)
       THEN /\ pc' = "StatusOk"
            /\ UNCHANGED outcome
       ELSE /\ pc' = "Failed"
            /\ outcome' = ErrorFromStatus(resp.status, resp.body)
    /\ UNCHANGED <<descriptor, conf, U, panicked, locals, resp>>

\* The last and_then: decode the body, or null when no_ret_type.
Decode ==
    /\ pc = "StatusOk"
    /\ LET parsed == Parsed(U, no_return_type, resp.body)
       IN IF parsed.ok
          THEN /\ pc' = "Decoded"
               /\ outcome' = [NoOutcome EXCEPT !.kind = "Ok",
                                               !.value = Some(parsed.val)]
          ELSE /\ pc' = "Failed"
               /\ outcome' = ErrorFromSerde
    /\ UNCHANGED <<descriptor, conf, U, panicked, locals, resp>>

(***************************************************************************)
(* Specifications.                                                         *)
(***************************************************************************)
WithBodyParam == \E v \in BodyValues : with_body_param(v)

WithHeaderParam ==
    \E n \in HeaderParamNames, v \in HeaderParamValues : with_header_param(n, v)

WithQueryParam ==
    \E n \in QueryNames, v \in QueryValues : with_query_param(n, v)

WithPathParam ==
    \E k \in PipelinePathKeys, v \in PipelinePathValues : with_path_param(k, v)

WithFormParam ==
    \E n \in FormNames, v \in FormValues : with_form_param(n, v)

WithAuth == \E a \in Auths : with_auth(a)

ExecuteCall ==
    \E T \in TargetTypes,
       pord \in Orders(DOMAIN path_params),
       qord \in Orders(DOMAIN query_params),
       ford \in Orders(DOMAIN form_params) : Execute(T, pord, qord, ford)

Response == \E st \in Statuses : ResponseReceived(st)

Body == \E b \in ResponseBodies : BodyReceived(b)

\* The whole builder and the whole pipeline, on one path template.
Init ==
    /\ conf \in Configurations
    /\ ConfSize(conf) <= MaxSettings
    /\ \E m \in Methods : New(m, PipelinePath)

Next ==
    \/ WithBodyParam
    \/ WithHeaderParam
    \/ WithQueryParam
    \/ WithPathParam
    \/ WithFormParam
    \/ returns_nothing
    \/ WithAuth
    \/ ExecuteCall
    \/ TransportFails
    \/ Response
    \/ BodyFails
    \/ Body
    \/ CheckStatus
    \/ Decode

Spec == Init /\ [][Next]_vars

\* Path resolution on every template and path-parameter map of the bounds.
WithAnyPathParam ==
    \E k \in PathKeys, v \in PathValues : with_path_param(k, v)

InitPath ==
    /\ conf = DefaultConf
    /\ \E m \in Methods, p \in Templates : New(m, p)

NextPath ==
    \/ WithAnyPathParam
    \/ ExecuteCall

SpecPath == InitPath /\ [][NextPath]_vars

(***************************************************************************)
(* Vocabulary of the properties.                                           *)
(***************************************************************************)
\* execute has been called (the only other way out of "build" is the panic
\* of with_body_param).
Executed == pc # "build" /\ panicked # "with_body_param"

\* execute built a request and handed it to the client.
Produced == req # NoReq

PanickedInExecute ==
    pc = "panicked" /\ panicked \in {"execute: HeaderValue::from_str",
                                     "execute: body"}

\* The response was 2xx / was not, and the chain has ended past the status
\* check (a TransportError ends it before).
EndedAfterResponse ==
    pc \in {"Decoded", "Failed"} /\ resp.status # 0
    /\ outcome.kind # "TransportError"

Is2xx(status) == status \in 200..299

BraceFree(text) == \A i \in DOMAIN text : text[i] \notin {"{", "}"}

\* The braces of a template form placeholders only: "{", brace-free text, "}".
RECURSIVE BracesPaired(_, _)
BracesPaired(p, open) ==
    IF p = <<>> THEN ~open
    ELSE IF Head(p) = "{" THEN ~open /\ BracesPaired(Tail(p), TRUE)
    ELSE IF Head(p) = "}" THEN open /\ BracesPaired(Tail(p), FALSE)
    ELSE BracesPaired(Tail(p), open)

WellFormedTemplate(p) == BracesPaired(p, FALSE)

\* The template read once, left to right, each placeholder of a mapped key
\* replaced by its value and everything else copied.
RECURSIVE SubstituteOnce(_, _)
SubstituteOnce(p, params) ==
    IF p = <<>> THEN <<>>
    ELSE IF \E k \in DOMAIN params : StartsWith(p, Placeholder(k))
         THEN LET k == CHOOSE k \in DOMAIN params : StartsWith(p, Placeholder(k))
              IN params[k]
                 \o SubstituteOnce(SubSeq(p, Len(Placeholder(k)) + 1, Len(p)), params)
         ELSE <<Head(p)>> \o SubstituteOnce(Tail(p), params)

\* text cut at every token `sep`.
RECURSIVE Split(_, _)
Split(text, sep) ==
    IF \E i \in DOMAIN text : text[i] = sep
    THEN LET i == CHOOSE i \in DOMAIN text :
                      text[i] = sep /\ \A j \in 1..(i - 1) : text[j] # sep
         IN <<SubSeq(text, 1, i - 1)>> \o Split(SubSeq(text, i + 1, Len(text)), sep)
    ELSE <<text>>

\* The query string of a URI: what follows its first "?".
QueryOf(uri) ==
    IF \E i \in DOMAIN uri : uri[i] = "?" THEN Flatten(Tail(Split(uri, "?")))
    ELSE <<>>

\* The name=value segments of a query string or form body.
SegmentsOf(text) == IF text = <<>> THEN <<>> ELSE Split(text, "&")

\* The segments whose name is `name`.
SegmentsNamed(text, name) ==
    SelectSeq(SegmentsOf(text), LAMBDA seg : Head(Split(seg, "=")) = UrlEncode(name))

\* The headers of the request that the assembly stages user-agent, typed and
\* raw wrote.
MergedHeaders ==
    SelectSeq(req.headers, LAMBDA e : e.by \in {"user-agent", "typed", "raw"})

StageRank(stage) ==
    CASE stage = "user-agent" -> 1
      [] stage = "typed" -> 2
      [] stage = "raw" -> 3
      [] OTHER -> 4

\* The API-key value the claim states: "prefix key", or the bare key.
StatedApiKeyValue ==
    LET k == conf.api_key[1]
    IN IF k.prefix = None THEN k.key ELSE k.prefix[1] \o <<" ">> \o k.key

(***************************************************************************)
(* Path resolution (checked under SpecPath).                               *)
(***************************************************************************)
\* What C2 says of the resolved path: no placeholder of a mapped key is left,
\* every one has its value in its place, every placeholder of an unmapped
\* key is still there, and the call did not fail.
PathResolvedAsStated ==
    /\ \A k \in DOMAIN path_params :
          Occurs(Placeholder(k), path) => ~Occurs(Placeholder(k), resolved)
    /\ resolved = SubstituteOnce(path, path_params)
    /\ \A k \in PathKeys \ DOMAIN path_params :
          Occurs(Placeholder(k), path) => Occurs(Placeholder(k), resolved)
    /\ pc \notin {"Failed", "panicked"}

C9_PathIndependentOfOrder ==
    Executed =>
        \A ord \in Orders(DOMAIN path_params) :
            ResolvePath(path, path_params, ord) = resolved

(***************************************************************************)
(* Builder and assembly (checked under Spec).                              *)
(***************************************************************************)
\* C1 as stated: in the produced request the user-agent, typed and raw
\* header writes come in that order, and each header name they wrote carries
\* exactly one value, the last one written.
C1_LaterHeaderWriteOverwrites ==
    Produced =>
        /\ \A i, j \in DOMAIN MergedHeaders :
              i < j => StageRank(MergedHeaders[i].by) <= StageRank(MergedHeaders[j].by)
        /\ \A i, j \in DOMAIN MergedHeaders :
              MergedHeaders[i].name = MergedHeaders[j].name => i = j

\* C3 as stated: with_body_param never aborts; an unserializable value is
\* reported to the caller as a SerializationError and the stored body stays.
C3_WithBodyParamNeverAborts ==
    panicked # "with_body_param"

\* C4 as stated: every execute ends Decoded with a value or Failed with one
\* of the four typed errors, and never panics.
C4_ExecuteNeverPanics ==
    /\ ~PanickedInExecute
    /\ pc = "Decoded" => outcome.kind = "Ok" /\ outcome.value # None
    /\ pc = "Failed" => outcome.kind \in {"UriError", "SerializationError",
                                          "TransportError", "ApiError"}

\* The API-key segment of the query string, as C5 states its value.
StatedApiKeySegment ==
    UrlEncode(auth.param_name) \o <<"=">> \o UrlEncode(StatedApiKeyValue)

\* The parts of C5 that do not count the query pairs: the value of the pair
\* and of the header, the header only with in_header, and nothing added and
\* the request still sent when the configuration holds no key.
ApiKeyPlacedAsStated ==
    LET named == SegmentsNamed(QueryOf(req.uri), auth.param_name)
    IN IF conf.api_key # None
       THEN Produced =>
            /\ auth.in_query => named # <<>> /\ named[Len(named)] = StatedApiKeySegment
            /\ auth.in_header =>
                 \E i \in DOMAIN req.headers :
                    /\ req.headers[i].name = HeaderNameOf(auth.param_name)
                    /\ req.headers[i].value = StatedApiKeyValue
            /\ ~auth.in_header => raw_headers = header_params
       ELSE /\ raw_headers = header_params
            /\ Len(query_pairs) = Cardinality(DOMAIN query_params)
            /\ Produced =>
                 Len(SegmentsOf(QueryOf(req.uri))) = Cardinality(DOMAIN query_params)
            /\ (/\ UriLegal(conf.base_path)
                /\ \A n \in DOMAIN header_params : HeaderValueLegal(header_params[n])
                /\ conf.user_agent # None => HeaderValueLegal(conf.user_agent[1]))
               => Produced

FormSegments ==
    {UrlEncode(k) \o <<"=">> \o UrlEncode(form_params[k]) : k \in DOMAIN form_params}

C8_Non2xxIsApiError ==
    (resp.status # 0 /\ ~Is2xx(resp.status)) =>
        /\ pc \notin {"StatusOk", "Decoded"}
        /\ outcome.kind \notin {"Ok", "SerializationError"}
        /\ EndedAfterResponse =>
              /\ pc = "Failed"
              /\ outcome.kind = "ApiError"
              /\ outcome.status = resp.status
              /\ outcome.body = resp.body

\* Witness of C8: returns_nothing set, a 404 whose body is not JSON.
C8_Witness ==
    /\ pc = "Failed"
    /\ no_return_type
    /\ resp = [status |-> 404, body |-> <<"oops">>]
    /\ outcome.kind = "ApiError" /\ outcome.status = 404
    /\ outcome.body = <<"oops">>

\* base_path + resolved path + query string, from what execute computed.
AssembledUri == UriStr(resolved, FormUrlEncode(query_pairs))

\* C10 as stated: the transport is handed a request at most once; an invalid
\* URI ends the call Failed with UriError and no send; otherwise exactly one
\* send has happened by the time the call or its future has ended.
C10_ExactlyOneSend ==
    /\ sends <= 1
    /\ (Executed /\ ~UriLegal(AssembledUri)) =>
          pc = "Failed" /\ outcome.kind = "UriError" /\ sends = 0
    /\ (Executed /\ UriLegal(AssembledUri)) => sends = 1

=============================================================================
